---- MODULE Spec2Model ----
(***************************************************************************)
(* ArcGIS-Pro-Color: adjacency graph of a layer's features, greedy         *)
(* colouring of that graph, and the colouring session (BaseColor) that     *)
(* hands the colour groups to the layer's renderer.                        *)
(*                                                                         *)
(* The code exists twice: the script src/gis_graph.py and the package      *)
(* src/ArcGISColor (graphs.py, color_cim.py).  The variable src says which *)
(* copy runs; the two differ in build_relationships only.                  *)
(***************************************************************************)
EXTENDS Integers, Sequences, FiniteSets, TLC

\* ------------------------------------------------------------------ bounds
NumKeys == 3        \* comparison-key values 1..NumKeys
NumLocs == 2        \* locations a geometry can pass through
MaxFeatures == 3    \* features of a layer a graph is built from
MaxSessionFeatures == 2   \* features of the layer of a colouring session
MaxVertices == 3    \* vertices of a line's geometry
MaxLines == 3       \* features of a line layer whose ends are taken
MaxNodes == 4       \* nodes of a graph handed to build_color_map as it is

\* ------------------------------------------------------------------ values
\* A Python value of the key field or of a colour index.  t is the kind of
\* value: "int" the integer v; "digits" the str of the decimal digits of v
\* ("1", "2", ...); "alpha" a str with a letter in it (the v-th one).
Val(t, v) == [t |-> t, v |-> v]
None == <<>>
Some(x) == <<x>>
IsNone(o) == o = <<>>
The(o) == o[1]

\* The key field is an integer field or a text field.  The text keys are
\* "1", "2", ... and, the last of them, one written with a letter.
FieldTypes == {"int", "text"}
FieldKey(t, v) ==
    IF t = "int" THEN Val("int", v)
    ELSE IF v < NumKeys THEN Val("digits", v) ELSE Val("alpha", v)
Locs == 1..NumLocs
Copies == {"gis_graph", "ArcGISColor"}
Kinds == {"Polygon", "Polyline"}

\* A feature of the layer: its key and the two locations of its geometry, a
\* line's first and last vertex, or two places a polygon's boundary passes
\* (a set of places: a <= b names each once).
Features(t, k) ==
    {f \in [key : {FieldKey(t, v) : v \in 1..NumKeys}, a : Locs, b : Locs] :
        k = "Polygon" => f.a <= f.b}
Layers(k, max) ==
    UNION {[1..n -> Features(t, k)] : n \in 0..max, t \in FieldTypes}

\* ------------------------------------------------------------------ state
VARIABLES
    src,             \* which copy of the code runs
    kind,            \* ColorPolygon or ColorPolyline (arcgis_graph_class)
    layer,           \* the layer's features, in cursor order
    addOutputsToMap, \* arcpy.env.addOutputsToMap
    overwriteOutput, \* arcpy.env.overwriteOutput
    gobj,            \* the graph object the caller holds (None or its df and graph)
    graphFile,       \* the csv file save_graph writes (None or its rows)
    cmapFile,        \* the json file save_mappings writes (None or its document)
    graph,           \* BaseColor.graph (None or a graph object)
    color_mappings,  \* BaseColor.color_mappings (None or a mapping)
    renderer,        \* what the layer's renderer was last given (None or a mapping)
    last             \* the last call: its name, how it ended, what it returned

vars == <<src, kind, layer, addOutputsToMap, overwriteOutput, gobj, graphFile,
          cmapFile, graph, color_mappings, renderer, last>>

\* ------------------------------------------------------------------ sequences
Range(s) == {s[i] : i \in 1..Len(s)}

RECURSIVE Concat(_)
Concat(ss) == IF ss = <<>> THEN <<>> ELSE Head(ss) \o Concat(Tail(ss))

\* ------------------------------------------------------------------ geometry
\* A line feature as the search cursor reads it, [SHAPE@, id_field]: its
\* key and the vertices of its geometry in order.  A feature without
\* geometry has no vertex, and its SHAPE@ is None.
LineFeatures(t) ==
    [key : {FieldKey(t, v) : v \in 1..NumKeys},
     vertices : UNION {[1..n -> Locs] : n \in 0..MaxVertices}]
LineLayers == UNION {[1..n -> LineFeatures(t)] : n \in 0..MaxLines, t \in FieldTypes}

\* geom.firstPoint, geom.lastPoint
firstPoint(geom) == geom[1]
lastPoint(geom) == geom[Len(geom)]

\* The rows of the cursor, each geometry with its two ends.
CursorRows(feats) ==
    [i \in 1..Len(feats) |->
        [key |-> feats[i].key,
         a |-> firstPoint(feats[i].vertices),
         b |-> lastPoint(feats[i].vertices)]]

\* convert_feature_to_ends with [geom.firstPoint] for the list of the two
\* ends: one point row per line feature.
convert_feature_to_ends_FirstOnly(feats) ==
    [i \in 1..Len(feats) |-> [key |-> feats[i].key, cells |-> {feats[i].a}]]

\* convert_feature_to_ends: two point rows per line feature, the first and
\* the last vertex, each with the feature's key.
convert_feature_to_ends(feats) ==
    Concat([i \in 1..Len(feats) |->
              << [key |-> feats[i].key, cells |-> {feats[i].a}],
                 [key |-> feats[i].key, cells |-> {feats[i].b}] >>])

\* A polygon layer is joined as it is.
PolygonItems(feats) ==
    [i \in 1..Len(feats) |-> [key |-> feats[i].key, cells |-> {feats[i].a, feats[i].b}]]

\* arcpy.SpatialJoin_analysis(feature, feature, JOIN_ONE_TO_MANY, KEEP_ALL):
\* one row per target item and join item whose geometries intersect, every
\* item with itself included; the row holds both keys (field, field_1).
SpatialJoin(items) ==
    Concat([i \in 1..Len(items) |->
        Concat([j \in 1..Len(items) |->
            IF items[i].cells \cap items[j].cells # {}
            THEN << <<items[i].key, items[j].key>> >>
            ELSE <<>>])])

\* ------------------------------------------------------------------ adjacency
\* The order of two keys of one field: integers by value, texts by their
\* characters (one character each here, digits before letters).
KeyLE(x, y) == x.v <= y.v

\* np.sort(df[[l, r]], 1): each row's two keys in ascending order.
SortedRow(p) == IF KeyLE(p[1], p[2]) THEN p ELSE <<p[2], p[1]>>

RECURSIVE RowsAt(_, _, _)
RowsAt(rows, keep, i) ==
    IF i > Len(rows) THEN <<>>
    ELSE (IF i \in keep THEN <<rows[i]>> ELSE <<>>) \o RowsAt(rows, keep, i + 1)

\* df.loc[pd.DataFrame(np.sort(df[[l, r]], 1), index=df.index)
\*            .drop_duplicates(keep='first').index]:
\* the rows, as they are, whose sorted pair no earlier row has.
drop_duplicates(rows) ==
    RowsAt(rows,
           {i \in 1..Len(rows) :
               \A j \in 1..(i - 1) : SortedRow(rows[j]) # SortedRow(rows[i])},
           1)

\* df.loc[df[l] != df[r]]
DropSelfPairs(rows) == SelectSeq(rows, LAMBDA p : p[1] # p[2])

\* build_relationships of src/gis_graph.py, after the join.
build_relationships_gis_graph(rows) == drop_duplicates(DropSelfPairs(rows))

\* build_relationships of src/ArcGISColor/graphs.py, after the join: the
\* self-pair filter is not there.
build_relationships_ArcGISColor(rows) == drop_duplicates(rows)

build_relationships(copy, rows) ==
    IF copy = "gis_graph" THEN build_relationships_gis_graph(rows)
    ELSE build_relationships_ArcGISColor(rows)

\* ------------------------------------------------------------------ graph
\* A networkx Graph: its nodes in insertion order and its undirected edges
\* in insertion order, each once, as first given; <<u, u>> is a self-loop.
EmptyGraph == [nodes |-> <<>>, edges |-> <<>>]

add_edge(G, u, v) ==
    LET n1 == IF u \in Range(G.nodes) THEN G.nodes ELSE Append(G.nodes, u)
        n2 == IF v \in Range(n1) THEN n1 ELSE Append(n1, v)
    IN  [nodes |-> n2,
         edges |-> IF \E e \in Range(G.edges) : {e[1], e[2]} = {u, v}
                   THEN G.edges ELSE Append(G.edges, <<u, v>>)]

RECURSIVE add_edges_from(_, _)
add_edges_from(G, rows) ==
    IF rows = <<>> THEN G
    ELSE add_edges_from(add_edge(G, Head(rows)[1], Head(rows)[2]), Tail(rows))

\* nx.from_pandas_edgelist(df, field, field_1)
from_pandas_edgelist(rows) == add_edges_from(EmptyGraph, rows)

NodeSet(G) == Range(G.nodes)
EdgeSet(G) == {{e[1], e[2]} : e \in Range(G.edges)}

\* What build_graph computes from the layer: ends (lines only), join,
\* relationships, graph.
JoinRows(k, feats) ==
    SpatialJoin(IF k = "Polyline" THEN convert_feature_to_ends(feats)
                ELSE PolygonItems(feats))

build_graph(copy, k, feats) ==
    from_pandas_edgelist(build_relationships(copy, JoinRows(k, feats)))

\* A graph object (ArcGISPolygonGraph, ArcGISPolylineGraph): self.df, the
\* relationships build_relationships kept, and self.graph.
GraphObject(df, G) == [df |-> df, graph |-> G]

\* The object once build_graph has returned.
BuiltObject(copy, k, feats) ==
    GraphObject(Some(build_relationships(copy, JoinRows(k, feats))),
                build_graph(copy, k, feats))

\* ------------------------------------------------------------------ colouring
\* G.degree(n): a self-loop counts twice.
Degree(G, n) ==
    LET RECURSIVE Sum(_)
        Sum(i) == IF i > Len(G.edges) THEN 0
                  ELSE (IF G.edges[i] = <<n, n>> THEN 2
                        ELSE IF n \in {G.edges[i][1], G.edges[i][2]} THEN 1
                        ELSE 0) + Sum(i + 1)
    IN  Sum(1)

\* G[u]: the neighbours of u, u itself when it has a self-loop.
Neighbours(G, u) ==
    {e[2] : e \in {x \in Range(G.edges) : x[1] = u}}
        \cup {e[1] : e \in {x \in Range(G.edges) : x[2] = u}}

\* nx.greedy_color's default strategy, largest_first:
\* sorted(G, key=G.degree, reverse=True), a stable sort, so nodes of equal
\* degree stay in insertion order.
RECURSIVE InsertByDegree(_, _, _)
InsertByDegree(G, sorted, x) ==
    IF sorted = <<>> THEN <<x>>
    ELSE IF Degree(G, Head(sorted)) < Degree(G, x) THEN <<x>> \o sorted
    ELSE <<Head(sorted)>> \o InsertByDegree(G, Tail(sorted), x)

RECURSIVE SortByDegree(_, _, _)
SortByDegree(G, sorted, rest) ==
    IF rest = <<>> THEN sorted
    ELSE SortByDegree(G, InsertByDegree(G, sorted, Head(rest)), Tail(rest))

\* nx.greedy_color(graph, strategy=lambda G, colors: G): the nodes as the
\* graph iterates them.
strategy_insertion_order(G) == G.nodes

strategy_largest_first(G) == SortByDegree(G, <<>>, G.nodes)

\* The first colour, counting from 0, no coloured neighbour has.
FirstUnused(used) == CHOOSE c \in 0..Cardinality(used) :
                        c \notin used /\ \A d \in 0..(c - 1) : d \in used

\* The loop of nx.greedy_color: colors is the dict it fills, as its items
\* in insertion order.
RECURSIVE ColorNodes(_, _, _)
ColorNodes(G, order, colors) ==
    IF order = <<>> THEN colors
    ELSE LET u == Head(order)
             nbr_colors == {c.color : c \in {x \in Range(colors) :
                                                x.node \in Neighbours(G, u)}}
         IN  ColorNodes(G, Tail(order),
                        Append(colors, [node |-> u, color |-> FirstUnused(nbr_colors)]))

greedy_color(G) ==
    IF Len(G.nodes) = 0 THEN <<>>
    ELSE ColorNodes(G, strategy_largest_first(G), <<>>)

\* A colour mapping (the dict color_mappings): its items in insertion
\* order, each a colour index and the list of its member keys.
RECURSIVE GroupByColor(_, _)
GroupByColor(c, out) ==
    IF c = <<>> THEN out
    ELSE LET idx == Val("int", Head(c).color)
             at == {k \in 1..Len(out) : out[k].idx = idx}
         IN  GroupByColor(Tail(c),
               IF at = {}
               THEN Append(out, [idx |-> idx, members |-> <<Head(c).node>>])
               ELSE [k \in 1..Len(out) |->
                       IF k \in at
                       THEN [out[k] EXCEPT !.members = Append(@, Head(c).node)]
                       ELSE out[k]])

\* build_color_map with out[c[_]] = [_] for the append: a group keeps only
\* its last node.
build_color_map_LastOnly(G) ==
    LET c == greedy_color(G)
        last_of(color) == CHOOSE i \in 1..Len(c) :
            c[i].color = color /\ \A j \in (i + 1)..Len(c) : c[j].color # color
        colors == {c[i].color : i \in 1..Len(c)}
    IN  [k \in 1..Cardinality(colors) |->
            [idx |-> Val("int", k - 1), members |-> <<c[last_of(k - 1)].node>>]]

\* build_color_map with out = {0: []} for out = {}: colour 0 has its group
\* before any node is looked at.
build_color_map_SeedGroup(G) ==
    GroupByColor(greedy_color(G), <<[idx |-> Val("int", 0), members |-> <<>>]>>)

\* BaseColor.build_color_map
build_color_map(G) == GroupByColor(greedy_color(G), <<>>)

\* The groups of a mapping that hold a key, and all its keys.
GroupsOf(m, key) == {k \in 1..Len(m) : key \in Range(m[k].members)}
MemberSet(m) == UNION {Range(m[k].members) : k \in 1..Len(m)}

\* get_id_mapping ending in "return 0": an unknown key gets the first colour.
id_mapping_Default(m, id) ==
    IF GroupsOf(m, id) = {} THEN Some(Val("int", 0))
    ELSE Some(m[CHOOSE k \in GroupsOf(m, id) : \A j \in GroupsOf(m, id) : k <= j].idx)

\* BaseColor.get_id_mapping past its guard: the index of the first group
\* that holds _id, and None (the function ends without a return) otherwise.
id_mapping(m, id) ==
    IF GroupsOf(m, id) = {} THEN None
    ELSE Some(m[CHOOSE k \in GroupsOf(m, id) : \A j \in GroupsOf(m, id) : k <= j].idx)

\* ------------------------------------------------------------------ json
\* json.dump writes a dict's keys as strings: an int index becomes the text
\* of its digits; list members keep their kind (number or string).
JsonKey(x) == IF x.t = "int" THEN Val("digits", x.v) ELSE x

\* json.dump of the mapping with its members written as text (str(_)).
json_dump_StrMembers(m) ==
    [k \in 1..Len(m) |->
        [name |-> JsonKey(m[k].idx),
         value |-> [i \in 1..Len(m[k].members) |-> JsonKey(m[k].members[i])]]]

json_dump(m) == [k \in 1..Len(m) |-> [name |-> JsonKey(m[k].idx), value |-> m[k].members]]

\* json.load builds the dict in document order; a repeated name keeps its
\* first place and takes the later value.
RECURSIVE json_load_from(_, _)
json_load_from(doc, out) ==
    IF doc = <<>> THEN out
    ELSE LET at == {k \in 1..Len(out) : out[k].idx = Head(doc).name}
         IN  json_load_from(Tail(doc),
               IF at = {}
               THEN Append(out, [idx |-> Head(doc).name, members |-> Head(doc).value])
               ELSE [k \in 1..Len(out) |->
                       IF k \in at THEN [out[k] EXCEPT !.members = Head(doc).value]
                       ELSE out[k]])

json_load(doc) == json_load_from(doc, <<>>)

\* ------------------------------------------------------------------ csv
\* G.edges(): node by node in insertion order, each node's edges in the
\* order they were added, an edge to an earlier node left out (it was
\* reported from there).
EdgeRows(G) ==
    Concat([i \in 1..Len(G.nodes) |->
        LET n == G.nodes[i]
            seen == {G.nodes[j] : j \in 1..(i - 1)}
        IN  Concat([k \in 1..Len(G.edges) |->
                LET e == G.edges[k]
                IN  IF e[1] = n /\ e[2] \notin seen THEN <<e>>
                    ELSE IF e[2] = n /\ e[1] \notin seen THEN << <<n, e[1]>> >>
                    ELSE <<>>])])

\* to_csv writes every cell as text: an integer as its digits.
CsvCell(x) == IF x.t = "int" THEN Val("digits", x.v) ELSE x

\* nx.to_pandas_edgelist(G).to_csv(path, index=False): the header
\* source,target (G's edges carry no attributes) and one line per edge.
to_csv(G) ==
    LET edges == EdgeRows(G)
    IN  [header |-> <<"source", "target">>,
         rows |-> [i \in 1..Len(edges) |->
                     <<CsvCell(edges[i][1]), CsvCell(edges[i][2])>>]]

\* pd.read_csv infers each column's type by itself: a column whose cells
\* are all digits is read as integers, any other stays text; a column with
\* no cell stays empty.
ReadColumn(rows, c, x) ==
    IF \A i \in 1..Len(rows) : rows[i][c].t = "digits" THEN Val("int", x.v) ELSE x

read_csv(file) ==
    [header |-> file.header,
     rows |-> [i \in 1..Len(file.rows) |->
                 <<ReadColumn(file.rows, 1, file.rows[i][1]),
                   ReadColumn(file.rows, 2, file.rows[i][2])>>]]

\* [_ for _ in _df.columns if _ not in ['source', 'target']]
edge_attr(df) == SelectSeq(df.header, LAMBDA c : c \notin {"source", "target"})

\* ------------------------------------------------------------------ calls
\* How a call ended: "ok", or the exception it raised.
Result(op, err, arg, ret) == [op |-> op, err |-> err, arg |-> arg, ret |-> ret]

Env == <<addOutputsToMap, overwriteOutput>>
Files == <<graphFile, cmapFile>>
Session == <<graph, color_mappings>>
Input == <<src, kind, layer>>

\* g = ArcGISPolygonGraph(); g.build_graph(layer, field), and the Polyline
\* twin.  __init__ sets overwriteOutput; build_graph sets addOutputsToMap to
\* False, works, and sets it back.
BuildGraphOk ==
    /\ overwriteOutput' = TRUE
    /\ addOutputsToMap' = addOutputsToMap
    /\ gobj' = Some(BuiltObject(src, kind, layer))
    /\ last' = Result("build_graph", "ok", None, None)
    /\ UNCHANGED <<Input, Files, Session, renderer>>

\* A collaborator (CreateFeatureclass, the cursors, SpatialJoin,
\* from_featureclass) raises inside build_graph: the exception leaves the
\* method before the line that sets addOutputsToMap back, and the caller
\* keeps the graph object it had.
BuildGraphFails ==
    /\ overwriteOutput' = TRUE
    /\ addOutputsToMap' = FALSE
    /\ last' = Result("build_graph", "CollaboratorFailure", None, None)
    /\ UNCHANGED <<Input, Files, Session, renderer, gobj>>

BuildGraph == BuildGraphOk \/ BuildGraphFails

\* save_graph of a graph object that holds a graph.
SaveGraph ==
    /\ ~IsNone(gobj)
    /\ graphFile' = Some(to_csv(The(gobj).graph))
    /\ last' = Result("save_graph", "ok", None, None)
    /\ UNCHANGED <<Input, Env, Session, renderer, gobj, cmapFile>>

\* g = ArcGISPolygonGraph(); g.load_graph(path) of the file save_graph
\* wrote; the caller keeps g when it loaded.  With no column besides source
\* and target edge_attr is [], which nx.from_pandas_edgelist refuses
\* (NetworkXError) from networkx 2.5 on and takes as "no attributes" before:
\* raises says which networkx is installed.
LoadGraph ==
    /\ ~IsNone(graphFile)
    /\ \E raises \in BOOLEAN :
        LET _df == read_csv(The(graphFile))
        IN  IF edge_attr(_df) = <<>> /\ raises
            THEN /\ gobj' = gobj
                 /\ last' = Result("load_graph", "NetworkXError", None, None)
            ELSE /\ gobj' = Some(GraphObject(None, from_pandas_edgelist(_df.rows)))
                 /\ last' = Result("load_graph", "ok", None, None)
    /\ overwriteOutput' = TRUE
    /\ UNCHANGED <<Input, addOutputsToMap, Files, Session, renderer>>

\* ArcGISPolylineGraph().convert_feature_to_ends(layer, field) on a line
\* layer.  Nothing in it looks at the number of vertices: a geometry of one
\* vertex has that vertex as its first and as its last point, and at a
\* feature without geometry geom is None and geom.firstPoint raises
\* AttributeError, which ends the call without a return.
ConvertFeatureToEnds ==
    /\ IF \E i \in 1..Len(layer) : layer[i].vertices = <<>>
       THEN last' = Result("convert_feature_to_ends", "AttributeError",
                           Some(layer), None)
       ELSE last' = Result("convert_feature_to_ends", "ok", Some(layer),
                           Some(convert_feature_to_ends(CursorRows(layer))))
    /\ overwriteOutput' = TRUE
    /\ UNCHANGED <<Input, addOutputsToMap, Files, Session, renderer, gobj>>

\* BaseColor.build_color_map(g.graph), called on a graph object's graph.
BuildColorMap ==
    /\ ~IsNone(gobj)
    /\ last' = Result("build_color_map", "ok", Some(The(gobj).graph),
                       Some(build_color_map(The(gobj).graph)))
    /\ UNCHANGED <<Input, Env, Files, Session, renderer, gobj>>

\* ColorPolygon(cmap=path, graph=g) / ColorPolyline(cmap=path, graph=g): the
\* session constructed anew, its mapping loaded from the file save_mappings
\* wrote, with the graph object the caller holds (or none).
NewSession ==
    /\ ~IsNone(cmapFile)
    /\ graph' = gobj
    /\ color_mappings' = Some(json_load(The(cmapFile)))
    /\ last' = Result("__init__", "ok", None, None)
    /\ UNCHANGED <<Input, Env, Files, renderer, gobj>>

\* save_mappings: raise "Must run apply_colors() first" raises TypeError
\* (a str is no exception); otherwise the mapping is dumped to the file.
save_mappings ==
    IF IsNone(color_mappings)
    THEN /\ last' = Result("save_mappings", "TypeError", None, None)
         /\ UNCHANGED <<Input, Env, Files, Session, renderer, gobj>>
    ELSE /\ cmapFile' = Some(json_dump(The(color_mappings)))
         /\ last' = Result("save_mappings", "ok", None, None)
         /\ UNCHANGED <<Input, Env, Session, renderer, gobj, graphFile>>

\* get_id_mapping(_id)
get_id_mapping(_id) ==
    /\ IF IsNone(color_mappings)
       THEN last' = Result("get_id_mapping", "TypeError", Some(_id), None)
       ELSE last' = Result("get_id_mapping", "ok", Some(_id),
                           id_mapping(The(color_mappings), _id))
    /\ UNCHANGED <<Input, Env, Files, Session, renderer, gobj>>

\* The keys a caller asks about: the values the layer's field can hold.
FieldType == IF layer = <<>> \/ layer[1].key.t = "int" THEN "int" ELSE "text"
LookupKeys == {FieldKey(FieldType, v) : v \in 1..NumKeys}

GetIdMapping == \E _id \in LookupKeys : get_id_mapping(_id)

\* update_cim(layer, field, cmap): the hand-off to the layer; cimFails says
\* that a CIM call (getDefinition, CreateCIMObjectFromClassName,
\* setDefinition) raised.
update_cim(op, cmap, cimFails) ==
    IF cimFails
    THEN /\ renderer' = renderer
         /\ last' = Result(op, "CollaboratorFailure", None, None)
    ELSE /\ renderer' = Some(cmap)
         /\ last' = Result(op, "ok", None, None)

\* reapply_colors without its guard: the hand-off is made with whatever
\* color_mappings is, None (no groups) included.
reapply_colors_NoGuard(cimFails) ==
    /\ update_cim("reapply_colors",
                  IF IsNone(color_mappings) THEN <<>> ELSE The(color_mappings), cimFails)
    /\ UNCHANGED <<Input, Env, Files, Session, gobj>>

\* reapply_colors that colours the graph again (the body of apply_colors)
\* instead of handing over the mapping it holds.
reapply_colors_Recompute(cimFails) ==
    IF IsNone(color_mappings)
    THEN /\ last' = Result("reapply_colors", "TypeError", None, None)
         /\ UNCHANGED <<Input, Env, Files, Session, renderer, gobj>>
    ELSE LET c == build_color_map(IF IsNone(graph) THEN build_graph(src, kind, layer)
                                  ELSE The(graph).graph)
         IN  /\ color_mappings' = Some(c)
             /\ update_cim("reapply_colors", c, cimFails)
             /\ UNCHANGED <<Input, Env, Files, graph, gobj>>

\* reapply_colors(layer, field)
reapply_colors(cimFails) ==
    IF IsNone(color_mappings)
    THEN /\ last' = Result("reapply_colors", "TypeError", None, None)
         /\ UNCHANGED <<Input, Env, Files, Session, renderer, gobj>>
    ELSE /\ update_cim("reapply_colors", The(color_mappings), cimFails)
         /\ UNCHANGED <<Input, Env, Files, Session, gobj>>

ReapplyColors == \E cimFails \in BOOLEAN : reapply_colors(cimFails)

\* apply_colors without the test of self.graph: a graph is built from the
\* layer on every call.
apply_colors_Rebuild(joinFails, cimFails) ==
    IF joinFails
    THEN /\ overwriteOutput' = TRUE
         /\ addOutputsToMap' = FALSE
         /\ last' = Result("apply_colors", "CollaboratorFailure", None, None)
         /\ UNCHANGED <<Input, Files, Session, renderer, gobj>>
    ELSE LET g == BuiltObject(src, kind, layer)
             c == build_color_map(g.graph)
         IN  /\ overwriteOutput' = TRUE
             /\ addOutputsToMap' = addOutputsToMap
             /\ graph' = Some(g)
             /\ color_mappings' = Some(c)
             /\ update_cim("apply_colors", c, cimFails)
             /\ UNCHANGED <<Input, Files, gobj>>

\* apply_colors(layer, field).  Without a graph the session builds one
\* (joinFails: a collaborator raises inside build_graph); then it colours
\* the graph, stores the mapping and hands it to the layer.
apply_colors(joinFails, cimFails) ==
    IF IsNone(graph) /\ joinFails
    THEN /\ overwriteOutput' = TRUE
         /\ addOutputsToMap' = FALSE
         /\ last' = Result("apply_colors", "CollaboratorFailure", None, None)
         /\ UNCHANGED <<Input, Files, Session, renderer, gobj>>
    ELSE LET g == IF IsNone(graph) THEN BuiltObject(src, kind, layer) ELSE The(graph)
             c == build_color_map(g.graph)
         IN  /\ overwriteOutput' = (IsNone(graph) \/ overwriteOutput)
             /\ addOutputsToMap' = addOutputsToMap
             /\ graph' = Some(g)
             /\ color_mappings' = Some(c)
             /\ update_cim("apply_colors", c, cimFails)
             /\ UNCHANGED <<Input, Files, gobj>>

ApplyColors == \E joinFails, cimFails \in BOOLEAN : apply_colors(joinFails, cimFails)

\* ------------------------------------------------------------------ behaviour
\* The layer and the copy of the code a run starts from; nothing is saved
\* and nothing was handed to the layer.
InitInput(max) ==
    /\ src \in Copies
    /\ kind \in Kinds
    /\ layer \in Layers(kind, max)
    /\ graphFile = None
    /\ renderer = None
    /\ last = Result("start", "ok", None, None)

\* The mapping file an earlier session saved for the layer's keys, computed
\* (by the package's copy) when no feature touched another: each key was
\* joined to itself only and all of them got colour 0.
EarlierMappings(feats) ==
    json_dump(build_color_map(from_pandas_edgelist(
        [i \in 1..Len(feats) |-> <<feats[i].key, feats[i].key>>])))

\* A session ColorPolygon(cmap, graph) / ColorPolyline(cmap, graph) on the
\* layer: constructed without a graph or with the graph object built from
\* the layer before (whose __init__ has set overwriteOutput, False by
\* default), and without a mapping file or with the one saved earlier.
Init ==
    /\ InitInput(MaxSessionFeatures)
    /\ addOutputsToMap = TRUE
    /\ gobj \in {None, Some(BuiltObject(src, kind, layer))}
    /\ overwriteOutput = ~IsNone(gobj)
    /\ graph = gobj
    /\ cmapFile \in {None, Some(EarlierMappings(layer))}
    /\ color_mappings =
          IF IsNone(cmapFile) THEN None ELSE Some(json_load(The(cmapFile)))

Next ==
    \/ NewSession
    \/ save_mappings
    \/ GetIdMapping
    \/ ReapplyColors
    \/ ApplyColors

Spec == Init /\ [][Next]_vars

\* The graph object on its own: built from the layer, coloured, saved and
\* loaded, no session yet.
InitGraph ==
    /\ InitInput(MaxFeatures)
    /\ addOutputsToMap = TRUE
    /\ overwriteOutput = FALSE
    /\ cmapFile = None
    /\ gobj = None
    /\ graph = None
    /\ color_mappings = None

NextGraph ==
    \/ BuildGraph
    \/ SaveGraph
    \/ LoadGraph
    \/ BuildColorMap

SpecGraph == InitGraph /\ [][NextGraph]_vars

\* The ends of a line layer taken on their own: a polyline graph object is
\* constructed and convert_feature_to_ends called on the layer.
InitEnds ==
    /\ src \in Copies
    /\ kind = "Polyline"
    /\ layer \in LineLayers
    /\ addOutputsToMap = TRUE
    /\ overwriteOutput = FALSE
    /\ graphFile = None
    /\ cmapFile = None
    /\ renderer = None
    /\ gobj = None
    /\ graph = None
    /\ color_mappings = None
    /\ last = Result("start", "ok", None, None)

NextEnds == ConvertFeatureToEnds

SpecEnds == InitEnds /\ [][NextEnds]_vars

\* A graph the caller made with networkx itself and hands to
\* build_color_map: integer nodes added in any order, some of them without
\* an edge, and any edges among them.
NodePairs(max) ==
    Concat([u \in 1..max |->
        Concat([v \in 1..max |->
            IF u < v THEN << <<Val("int", u), Val("int", v)>> >> ELSE <<>>])])

Graphs(max) ==
    LET pairs == NodePairs(max)
        orders == UNION {{f \in [1..n -> {Val("int", v) : v \in 1..max}] :
                            \A i, j \in 1..n : f[i] = f[j] => i = j} : n \in 0..max}
    IN  UNION {
          {[nodes |-> ns, edges |-> SelectSeq(pairs, LAMBDA e : e \in es)] :
              es \in SUBSET {e \in Range(pairs) : {e[1], e[2]} \subseteq Range(ns)}} :
          ns \in orders}

\* A session's class is constructed (its graph class is of no matter here)
\* and build_color_map called on the graph.
InitColor ==
    /\ src \in Copies
    /\ kind = "Polygon"
    /\ layer = <<>>
    /\ addOutputsToMap = TRUE
    /\ overwriteOutput = TRUE
    /\ graphFile = None
    /\ cmapFile = None
    /\ renderer = None
    /\ gobj \in {Some(GraphObject(None, G)) : G \in Graphs(MaxNodes)}
    /\ graph = None
    /\ color_mappings = None
    /\ last = Result("start", "ok", None, None)

NextColor == BuildColorMap

SpecColor == InitColor /\ [][NextColor]_vars

\* ------------------------------------------------------------------ claims
BuiltGraph == build_graph(src, kind, layer)

\* C1: in every graph build_graph produces, in either copy of the code, and
\* build_color_map then colours, no edge has both its ends in one colour
\* group.
C1_ProperColoring ==
    (last.op = "build_color_map" /\ The(last.arg) = BuiltGraph) =>
        \A e \in Range(BuiltGraph.edges) : \A k \in 1..Len(The(last.ret)) :
            ~({e[1], e[2]} \subseteq Range(The(last.ret)[k].members))

\* C2: the mapping build_color_map returns partitions the graph's nodes:
\* every node is in exactly one group, once, and every member is a node.
C2_Partition ==
    last.op = "build_color_map" =>
        LET G == The(last.arg)
            m == The(last.ret)
        IN  /\ \A n \in NodeSet(G) : Cardinality(GroupsOf(m, n)) = 1
            /\ \A k \in 1..Len(m) :
                  \A i, j \in 1..Len(m[k].members) :
                      m[k].members[i] = m[k].members[j] => i = j
            /\ MemberSet(m) \subseteq NodeSet(G)
            /\ \A k, j \in 1..Len(m) : m[k].idx = m[j].idx => k = j

\* C2's case: a graph of three nodes coloured with two colours.
C2_Witness ==
    /\ last.op = "build_color_map"
    /\ Len(The(last.arg).nodes) = 3
    /\ Len(The(last.ret)) = 2

\* C3: after build_graph the nodes of the graph are the keys of the layer's
\* features, those of features that touch no other feature included.
C3_NodesAreKeys ==
    (last.op = "build_graph" /\ last.err = "ok") =>
        NodeSet(The(gobj).graph) = {layer[i].key : i \in 1..Len(layer)}

\* C4: build_relationships keeps no pair of a key with itself and, of the
\* rows of each unordered pair of different keys, the first one only.
FirstOfEachPair(rows) ==
    RowsAt(rows,
           {i \in 1..Len(rows) :
               /\ rows[i][1] # rows[i][2]
               /\ \A j \in 1..(i - 1) :
                     {rows[j][1], rows[j][2]} # {rows[i][1], rows[i][2]}},
           1)

C4_Relationships ==
    (last.op = "build_graph" /\ last.err = "ok") =>
        The(The(gobj).df) = FirstOfEachPair(JoinRows(kind, layer))

\* C5: with no mapping computed or loaded, reapply_colors, get_id_mapping
\* and save_mappings raise, hand nothing to the layer, write no file and
\* leave the session as it was.
C5_NotInitialized ==
    [][(IsNone(color_mappings)
          /\ last'.op \in {"reapply_colors", "get_id_mapping", "save_mappings"}) =>
            /\ last'.err = "TypeError"
            /\ renderer' = renderer
            /\ cmapFile' = cmapFile
            /\ graphFile' = graphFile
            /\ graph' = graph
            /\ color_mappings' = color_mappings]_vars

\* C5's case: reapply_colors was called on a session without a mapping.
C5_Witness ==
    /\ IsNone(color_mappings)
    /\ last.op = "reapply_colors"
    /\ last.err = "TypeError"

\* C6: an apply_colors that fails leaves the session's graph and
\* color_mappings as they were before the call.
C6_FailedApplyKeepsState ==
    [][(last'.op = "apply_colors" /\ last'.err # "ok") =>
            (graph' = graph /\ color_mappings' = color_mappings)]_vars

\* C7: on every exit from build_graph, a raise included,
\* arcpy.env.addOutputsToMap has the value it had on entry.
C7_EnvRestored ==
    [][last'.op = "build_graph" => addOutputsToMap' = addOutputsToMap]_vars

\* C8: save_mappings followed by load_mappings gives the same groups of
\* member keys, each under the text of the index it had, so a key's lookup
\* in the loaded mapping finds the group it was in.
DocGroups(doc) ==
    {[idx |-> doc[k].name, members |-> Range(doc[k].value)] : k \in 1..Len(doc)}
MappingGroups(m) ==
    {[idx |-> m[k].idx, members |-> Range(m[k].members)] : k \in 1..Len(m)}
IndexText(groups) ==
    {[idx |-> JsonKey(g.idx), members |-> g.members] : g \in groups}

C8_RoundTrip ==
    [][/\ (last'.op = "save_mappings" /\ last'.err = "ok") =>
            /\ DocGroups(The(cmapFile')) = IndexText(MappingGroups(The(color_mappings)))
            /\ Len(The(cmapFile')) = Len(The(color_mappings))
       /\ last'.op = "__init__" =>
            /\ MappingGroups(The(color_mappings')) = DocGroups(The(cmapFile))
            /\ Len(The(color_mappings')) = Len(The(cmapFile))
            /\ \A key \in MemberSet(The(color_mappings')) :
                  \E k \in 1..Len(The(cmapFile)) :
                      /\ key \in Range(The(cmapFile)[k].value)
                      /\ id_mapping(The(color_mappings'), key)
                            = Some(The(cmapFile)[k].name)]_vars

\* C8's case: a mapping of two groups was saved and a session loaded it.
C8_Witness ==
    /\ last.op = "__init__"
    /\ ~IsNone(color_mappings)
    /\ Len(The(color_mappings)) = 2
    /\ The(cmapFile) = json_dump(The(color_mappings))

\* C9: load_graph of the file save_graph wrote for a graph build_graph
\* produced succeeds and gives a graph of the same nodes and edges.
C9_GraphRoundTrip ==
    [][(/\ last'.op = "load_graph"
        /\ ~IsNone(gobj)
        /\ The(gobj).graph = BuiltGraph
        /\ graphFile = Some(to_csv(BuiltGraph))) =>
            /\ last'.err = "ok"
            /\ NodeSet(The(gobj').graph) = NodeSet(BuiltGraph)
            /\ EdgeSet(The(gobj').graph) = EdgeSet(BuiltGraph)]_vars

\* C10: get_id_mapping returns the index of the group that holds the key,
\* and for a key no group holds it returns None, which is no colour index.
C10_Lookup ==
    (last.op = "get_id_mapping" /\ last.err = "ok") =>
        LET m == The(color_mappings)
            _id == The(last.arg)
        IN  IF GroupsOf(m, _id) # {}
            THEN \E k \in GroupsOf(m, _id) : last.ret = Some(m[k].idx)
            ELSE /\ IsNone(last.ret)
                 /\ \A k \in 1..Len(m) : last.ret # Some(m[k].idx)
                 /\ last.ret # Some(Val("int", 0))

\* C10's case: a key that is in no group of a mapping of two groups was
\* looked up.
C10_Witness ==
    /\ last.op = "get_id_mapping"
    /\ last.err = "ok"
    /\ Len(The(color_mappings)) = 2
    /\ GroupsOf(The(color_mappings), The(last.arg)) = {}

\* C11: in a session that holds a mapping, reapply_colors leaves graph and
\* color_mappings as they are and hands that same mapping to the layer; a
\* second call after a first one changes nothing at all.
C11_ReapplyIdempotent ==
    [][(~IsNone(color_mappings) /\ last'.op = "reapply_colors") =>
            /\ graph' = graph
            /\ color_mappings' = color_mappings
            /\ last'.err = "ok" => renderer' = color_mappings
            /\ last'.err # "ok" => renderer' = renderer
            /\ (last.op = "reapply_colors" /\ last.err = "ok" /\ last'.err = "ok")
                  => UNCHANGED vars]_vars

\* C11's case: reapply_colors handed a mapping of two groups to the layer.
C11_Witness ==
    /\ last.op = "reapply_colors"
    /\ last.err = "ok"
    /\ renderer = color_mappings
    /\ Len(The(color_mappings)) = 2

\* C12: once the session holds a mapping, computed or loaded, no call of
\* apply_colors, reapply_colors, get_id_mapping or save_mappings changes the
\* group a key is in.
Partition(m) == {Range(m[k].members) : k \in 1..Len(m)}

C12_AssignmentImmutable ==
    [][(/\ ~IsNone(color_mappings)
        /\ last'.op \in {"apply_colors", "reapply_colors",
                         "get_id_mapping", "save_mappings"}) =>
            /\ ~IsNone(color_mappings')
            /\ Partition(The(color_mappings')) = Partition(The(color_mappings))]_vars

\* C13: with a graph in the session apply_colors builds nothing (the
\* environment build_graph touches stays as it is), keeps the graph and
\* stores the colouring of that graph; without one it builds the layer's
\* graph, which the session then keeps.
C13_SuppliedGraphKept ==
    [][last'.op = "apply_colors" =>
          IF ~IsNone(graph)
          THEN /\ graph' = graph
               /\ addOutputsToMap' = addOutputsToMap
               /\ overwriteOutput' = overwriteOutput
               /\ color_mappings' = Some(build_color_map(The(graph).graph))
          ELSE \/ /\ last'.err = "CollaboratorFailure"
                  /\ IsNone(graph')
                  /\ color_mappings' = color_mappings
               \/ /\ graph' = Some(BuiltObject(src, kind, layer))
                  /\ color_mappings' = Some(build_color_map(The(graph').graph))]_vars

\* C13's case: apply_colors coloured the graph the session was constructed
\* with, into two groups.
C13_Witness ==
    /\ last.op = "apply_colors"
    /\ last.err = "ok"
    /\ ~IsNone(gobj)
    /\ graph = gobj
    /\ Len(The(color_mappings)) = 2

\* C14: convert_feature_to_ends raises InvalidGeometry and returns no point
\* collection whenever a line feature has fewer than two vertices.
C14_InvalidGeometry ==
    (/\ last.op = "convert_feature_to_ends"
     /\ \E i \in 1..Len(layer) : Len(layer[i].vertices) < 2) =>
        /\ last.err = "InvalidGeometry"
        /\ IsNone(last.ret)

\* C15: for N line features of two vertices or more each,
\* convert_feature_to_ends returns 2*N point rows, for the i-th feature one
\* at its first and then one at its last vertex, both with its key, and the
\* layer is as it was.
C15_TwoEndsEach ==
    (/\ last.op = "convert_feature_to_ends"
     /\ \A i \in 1..Len(layer) : Len(layer[i].vertices) >= 2) =>
        /\ last.err = "ok"
        /\ last.arg = Some(layer)
        /\ Len(The(last.ret)) = 2 * Len(layer)
        /\ \A i \in 1..Len(layer) :
              /\ The(last.ret)[2 * i - 1] =
                    [key |-> layer[i].key, cells |-> {layer[i].vertices[1]}]
              /\ The(last.ret)[2 * i] =
                    [key |-> layer[i].key,
                     cells |-> {layer[i].vertices[Len(layer[i].vertices)]}]

\* C15's case: three line features, one of them of three vertices that ends
\* where it did not start, gave six point rows.
C15_Witness ==
    /\ last.op = "convert_feature_to_ends"
    /\ last.err = "ok"
    /\ Len(layer) = 3
    /\ Len(The(last.ret)) = 6
    /\ \E i \in 1..3 : /\ Len(layer[i].vertices) = 3
                       /\ layer[i].vertices[1] # layer[i].vertices[3]

\* C16: build_color_map of a graph without nodes is the empty mapping, so
\* apply_colors on a session whose graph has no node ends with the empty
\* mapping held by the session (and handed to the layer when the hand-off
\* works).
C16_EmptyGraph ==
    [][(/\ last'.op = "apply_colors"
        /\ ~IsNone(graph')
        /\ The(graph').graph.nodes = <<>>) =>
            /\ color_mappings' = Some(<<>>)
            /\ last'.err = "ok" => renderer' = Some(<<>>)]_vars

\* C16's case: apply_colors ran on a layer with a feature whose graph has
\* no node.
C16_Witness ==
    /\ last.op = "apply_colors"
    /\ last.err = "ok"
    /\ layer # <<>>
    /\ The(graph).graph = EmptyGraph
    /\ color_mappings = Some(<<>>)

\* C18 as claimed: build_color_map takes the nodes in the graph's insertion
\* order, gives each the smallest colour no neighbour coloured before it
\* has, and lists the groups and their members in that order; nodes A, B,
\* C, D (1, 2, 3, 4) with edges (A,B), (B,C) give {0: [A, C, D], 1: [B]}.
Pos(ord, n) == CHOOSE p \in 1..Len(ord) : ord[p] = n
ColourOf(m, n) == m[CHOOSE k \in GroupsOf(m, n) : TRUE].idx.v

GreedyIn(G, ord, m) ==
    /\ \A n \in NodeSet(G) : Cardinality(GroupsOf(m, n)) = 1
    /\ \A k \in 1..Len(m) : m[k].idx.t = "int" /\ m[k].members # <<>>
    /\ \A p \in 1..Len(ord) :
          LET used == {ColourOf(m, ord[q]) :
                          q \in {r \in 1..(p - 1) : ord[r] \in Neighbours(G, ord[p])}}
              c == ColourOf(m, ord[p])
          IN  c \notin used /\ \A d \in 0..(c - 1) : d \in used
    /\ \A k \in 1..Len(m) :
          m[k].members = SelectSeq(ord, LAMBDA n : ColourOf(m, n) = m[k].idx.v)
    /\ \A k, j \in 1..Len(m) :
          k < j => Pos(ord, m[k].members[1]) < Pos(ord, m[j].members[1])

PathAndIsolated ==
    [nodes |-> <<Val("int", 1), Val("int", 2), Val("int", 3), Val("int", 4)>>,
     edges |-> << <<Val("int", 1), Val("int", 2)>>, <<Val("int", 2), Val("int", 3)>> >>]

Group(c, keys) == [idx |-> Val("int", c), members |-> [i \in 1..Len(keys) |-> Val("int", keys[i])]]

C18_InsertionOrder ==
    last.op = "build_color_map" =>
        /\ GreedyIn(The(last.arg), The(last.arg).nodes, The(last.ret))
        /\ The(last.arg) = PathAndIsolated =>
              The(last.ret) = <<Group(0, <<1, 3, 4>>), Group(1, <<2>>)>>

\* C18 amended: the nodes are taken in the order of falling degree, nodes
\* of one degree in insertion order; each gets the smallest colour no
\* neighbour coloured before it has; the example gives {0: [B, D], 1: [A, C]}.
LargestFirst(G) ==
    CHOOSE ord \in [1..Len(G.nodes) -> NodeSet(G)] :
        \A p, q \in 1..Len(G.nodes) :
            p < q => \/ Degree(G, ord[p]) > Degree(G, ord[q])
                     \/ /\ Degree(G, ord[p]) = Degree(G, ord[q])
                        /\ Pos(G.nodes, ord[p]) < Pos(G.nodes, ord[q])

C18_LargestFirstOrder ==
    last.op = "build_color_map" =>
        /\ GreedyIn(The(last.arg), LargestFirst(The(last.arg)), The(last.ret))
        /\ The(last.arg) = PathAndIsolated =>
              The(last.ret) = <<Group(0, <<2, 4>>), Group(1, <<1, 3>>)>>

\* C18's case: the graph of the example was coloured.
C18_Witness ==
    /\ last.op = "build_color_map"
    /\ The(last.arg) = PathAndIsolated
    /\ Len(The(last.ret)) = 2

\* C19: the two copies of build_relationships return the same relationships
\* for every join output, so the graph build_graph makes is the one the
\* other copy would make, and it has no self-loop.
OtherCopy == CHOOSE c \in Copies : c # src

C19_CopiesEquivalent ==
    (last.op = "build_graph" /\ last.err = "ok") =>
        /\ The(The(gobj).df) = build_relationships(OtherCopy, JoinRows(kind, layer))
        /\ NodeSet(The(gobj).graph) = NodeSet(build_graph(OtherCopy, kind, layer))
        /\ EdgeSet(The(gobj).graph) = EdgeSet(build_graph(OtherCopy, kind, layer))
        /\ \A e \in Range(The(gobj).graph.edges) : e[1] # e[2]

====
